---- MODULE Spec2Model ----
\* Model of server/python/lama_worker.py: the LaMa inpainting worker process.
\* Startup (_pick_device, _load_model, the ready _write) followed by the
\* line-by-line request loop over stdin.
\*
\* Text is modelled as a tuple of fragments (one-character strings for the
\* environment value, longer fragments for messages), so that strip(),
\* lower() and the substring tests of the source are computed, not assumed.
EXTENDS Integers, Sequences, FiniteSets, TLC

\* ---------------------------------------------------------------- bounds
\* Number of lines the parent process sends before closing stdin.
MaxLines == 2

\* ------------------------------------------------------------ text helpers
None == <<"None">>

Whitespace == {" ", "\t", "\n"}

RECURSIVE lstrip(_)
lstrip(s) ==
    IF s = <<>> THEN s
    ELSE IF Head(s) \in Whitespace THEN lstrip(Tail(s)) ELSE s

RECURSIVE rstrip(_)
rstrip(s) ==
    IF s = <<>> THEN s
    ELSE IF s[Len(s)] \in Whitespace THEN rstrip(SubSeq(s, 1, Len(s) - 1)) ELSE s

\* Variant: only the line terminator is removed.
strip_newline(s) ==
    IF s # <<>> /\ s[Len(s)] = "\n" THEN SubSeq(s, 1, Len(s) - 1) ELSE s

\* str.strip()
strip(s) == rstrip(lstrip(s))

\* str.lower() on one fragment
lowerFragment(f) ==
    CASE f = "A" -> "a" [] f = "C" -> "c" [] f = "D" -> "d" [] f = "G" -> "g"
      [] f = "O" -> "o" [] f = "P" -> "p" [] f = "T" -> "t" [] f = "U" -> "u"
      [] f = "CUDA error: " -> "cuda error: "
      [] f = "CUDA capability" -> "cuda capability"
      [] f = "CUDA out of memory" -> "cuda out of memory"
      [] f = "is not compatible with the current PyTorch installation"
            -> "is not compatible with the current pytorch installation"
      [] f = "NVIDIA GPU with " -> "nvidia gpu with "
      [] OTHER -> f

\* str.lower()
lower(s) == [i \in DOMAIN s |-> lowerFragment(s[i])]

\* "needle in s"
contains(s, needle) == \E i \in DOMAIN s : s[i] = needle

AUTO == <<"a", "u", "t", "o">>
CPU == <<"c", "p", "u">>
CUDA == <<"c", "u", "d", "a">>

\* ------------------------------------------------------------ environment
\* os.environ restricted to LAMIVI_DEVICE: unset, or set to a text.
EnvUnset == [set |-> FALSE, val |-> <<>>]
EnvSet(v) == [set |-> TRUE, val |-> v]

EnvValues ==
    { EnvUnset,
      EnvSet(<<"c", "p", "u">>),
      EnvSet(<<"C", "p", "u", " ">>),
      EnvSet(<<" ", "C", "U", "D", "A", "\n">>),
      EnvSet(<<"g", "p", "u">>),
      EnvSet(<<"A", "U", "T", "O">>) }

\* os.environ.get("LAMIVI_DEVICE", default)
environ_get(env, default) == IF env.set THEN env.val ELSE default

\* The torch import: absent (import failed, torch = None), present without
\* a cuda attribute, or present with torch.cuda.
TorchStates == {"none", "nocuda", "cuda"}

\* What a call of torch.cuda.is_available() can do.
ProbeOutcomes == {"True", "False", "raise"}

\* _cuda_available(): "True", "False" or "raise" (the probe's error propagates).
\* `probe` is what torch.cuda.is_available() does if it is called.
_cuda_available(tor, probe) ==
    IF tor = "none" THEN "False"
    ELSE IF tor = "nocuda" THEN "False"
    ELSE probe

\* ---------------------------------------------------------- _pick_device
Decision(req, dev, warn) == [requested |-> req, device |-> dev, warning |-> warn]

UnavailableWarning ==
    <<"LAMIVI_DEVICE=cuda requested, but torch.cuda.is_available() is False. Falling back to CPU.">>

\* Variant: the value is compared without lower().
requested_device_nolower(env) ==
    LET requested == strip(environ_get(env, AUTO))
    IN  IF requested \in {AUTO, CPU, CUDA} THEN requested ELSE AUTO

\* Line 26-27: the normalised requested device.
requested_device(env) ==
    LET requested == lower(strip(environ_get(env, AUTO)))
    IN  IF requested \in {AUTO, CPU, CUDA} THEN requested ELSE AUTO

\* Whether _pick_device calls _cuda_available() at all.
pick_probes(env) == requested_device(env) # CPU

\* Variant: a request for cuda is honoured whatever the probe returned.
_pick_device_forced(env, avail) ==
    LET requested == requested_device(env)
    IN  IF requested = CPU THEN Decision(requested, "cpu", None)
        ELSE IF requested = CUDA THEN Decision(requested, "cuda", None)
        ELSE IF avail = "True" THEN Decision(requested, "cuda", None)
        ELSE Decision(requested, "cpu", None)

\* _pick_device() given the value avail ("True"/"False") its call of
\* _cuda_available() returned; the call is not made when cpu is requested.
_pick_device(env, avail) ==
    LET requested == requested_device(env)
    IN  IF requested = CPU THEN Decision(requested, "cpu", None)
        ELSE IF requested = CUDA
             THEN IF avail = "True" THEN Decision(requested, "cuda", None)
                  ELSE Decision(requested, "cpu", UnavailableWarning)
        ELSE IF avail = "True" THEN Decision(requested, "cuda", None)
        ELSE Decision(requested, "cpu", None)

\* ------------------------------------------------- _is_cuda_compat_error
Exc(name, msg) == [name |-> name, msg |-> msg]
NoExc == Exc("", <<>>)

MsgKeyword == <<"__init__() got an unexpected keyword argument 'device'">>
MsgKernel == <<"CUDA error: ", "no kernel image is available", " for execution on the device">>
MsgIncompat == <<"NVIDIA GPU with ", "is not compatible with the current PyTorch installation">>
MsgCapability == <<"CUDA capability", " ", "sm_", "120">>
MsgCapabilityOnly == <<"CUDA capability", " 8.6 required">>
MsgOom == <<"CUDA out of memory">>

_is_cuda_compat_error(err) ==
    LET msg == lower(err.msg)
    IN  \/ contains(msg, "no kernel image is available")
        \/ contains(msg, "is not compatible with the current pytorch installation")
        \/ (contains(msg, "cuda capability") /\ contains(msg, "sm_"))

\* What a call of the SimpleLama constructor can do: return a model, or
\* raise TypeError or another Exception.
CtorFailures ==
    { Exc("TypeError", MsgKeyword),
      Exc("RuntimeError", MsgKernel),
      Exc("RuntimeError", MsgIncompat),
      Exc("RuntimeError", MsgCapability),
      Exc("RuntimeError", MsgCapabilityOnly),
      Exc("RuntimeError", MsgOom) }

CtorOutcomes == {NoExc} \cup CtorFailures

CompatWarning ==
    <<"CUDA is available but this GPU/PyTorch combination is not supported by the current runtime. ",
      "Falling back to CPU.">>

\* Variant: the cpu fallback is taken whatever device was resolved.
load_handler_nodevicecheck(device, e) ==
    IF e.name = "TypeError" THEN "retry_nodev"
    ELSE IF _is_cuda_compat_error(e) THEN "retry_cpu"
    ELSE "raise"

\* Lines 57-68: what _load_model does with the exception e raised by the
\* first constructor call SimpleLama(device=device).
load_handler(device, e) ==
    IF e.name = "TypeError" THEN "retry_nodev"
    ELSE IF device = "cuda" /\ _is_cuda_compat_error(e) THEN "retry_cpu"
    ELSE "raise"

\* --------------------------------------------------------------- state
VARIABLES
    environ,            \* os.environ (LAMIVI_DEVICE)
    torch,              \* the torch module as imported at lines 13-16
    pc,                 \* position of the process in the script
    exitCode,           \* process exit status, -1 while running
    uncaught,           \* the exception that ended the process, if any
    avail1,             \* what _cuda_available() returned inside _pick_device
    decision,           \* locals requested, device, warning of _load_model
    attempts,           \* the SimpleLama constructor calls made so far
    MODEL, REQUESTED_DEVICE, DEVICE, DEVICE_WARNING,   \* globals of line 72
    out,                \* lines written to stdout
    nread,              \* lines read from stdin
    nonblank,           \* of which non-empty after strip()
    raw,                \* the loop target as read, before line 102 rebinds it
    line, req_id, image, mask, result,                 \* locals of the loop
    calls               \* codec/model calls made for the current line

startupVars == <<avail1, decision, attempts>>
globalVars == <<MODEL, REQUESTED_DEVICE, DEVICE, DEVICE_WARNING>>
loopVars == <<nread, nonblank, raw, line, req_id, image, mask, result, calls>>
vars == <<environ, torch, pc, exitCode, uncaught, startupVars, globalVars, out, loopVars>>

Unset == <<"unset">>
NoCalls == [decode |-> 0, infer |-> 0, encode |-> 0]
PyNone == [t |-> "null", v |-> "null"]

StartingPcs == {"pick", "construct", "retry_nodev", "retry_cpu", "ready"}
ProcessingPcs == {"parse", "infer"}

Init ==
    /\ environ \in EnvValues
    /\ torch \in TorchStates
    /\ pc = "pick"
    /\ exitCode = -1
    /\ uncaught = NoExc
    /\ avail1 = "uncalled"
    /\ decision = Decision(Unset, "unset", Unset)
    /\ attempts = <<>>
    /\ MODEL = "unset"
    /\ REQUESTED_DEVICE = Unset
    /\ DEVICE = "unset"
    /\ DEVICE_WARNING = Unset
    /\ out = <<>>
    /\ nread = 0
    /\ nonblank = 0
    /\ raw = Unset
    /\ line = Unset
    /\ req_id = PyNone
    /\ image = "unset"
    /\ mask = "unset"
    /\ result = "unset"
    /\ calls = NoCalls

\* An exception that nothing catches: traceback on stderr, exit status 1.
Fatal(e) ==
    /\ pc' = "Terminated"
    /\ exitCode' = 1
    /\ uncaught' = e

ProbeError == Exc("RuntimeError", <<"CUDA driver initialization failed">>)

\* sys.stdout.write(json.dumps(payload) + "\n"); flush
_write(payload) == out' = Append(out, payload)

\* ------------------------------------------------------------- startup
\* Line 53: requested, device, warning = _pick_device()
PickDevice ==
    /\ pc = "pick"
    /\ \E probe \in ProbeOutcomes :
         LET avail == IF pick_probes(environ)
                      THEN _cuda_available(torch, probe) ELSE "uncalled"
         IN  /\ avail1' = avail
             /\ IF avail = "raise"
                THEN Fatal(ProbeError) /\ UNCHANGED decision
                ELSE /\ decision' = _pick_device(environ, avail)
                     /\ pc' = "construct"
                     /\ UNCHANGED <<exitCode, uncaught>>
    /\ UNCHANGED <<environ, torch, attempts, globalVars, out, loopVars>>

\* Line 69/67 and line 72: _load_model returns, the globals are bound.
Loaded(model, requested, device, warning) ==
    /\ MODEL' = model
    /\ REQUESTED_DEVICE' = requested
    /\ DEVICE' = device
    /\ DEVICE_WARNING' = warning
    /\ pc' = "ready"
    /\ UNCHANGED <<exitCode, uncaught>>

\* Lines 55-69: the first constructor call and the except clauses.
Construct ==
    /\ pc = "construct"
    /\ \E o \in CtorOutcomes :
         /\ attempts' = Append(attempts, [arg |-> decision.device, exc |-> o])
         /\ IF o = NoExc
            THEN Loaded(decision.device, decision.requested, decision.device, decision.warning)
            ELSE LET todo == load_handler(decision.device, o)
                 IN  IF todo = "raise"
                     THEN Fatal(o) /\ UNCHANGED globalVars
                     ELSE pc' = todo /\ UNCHANGED <<exitCode, uncaught, globalVars>>
    /\ UNCHANGED <<environ, torch, avail1, decision, out, loopVars>>

\* Variant: a compatibility error of the constructor called without device
\* also leads to the cpu retry.
RetryNoDevice_fallback ==
    /\ pc = "retry_nodev"
    /\ \E o \in CtorOutcomes :
         /\ attempts' = Append(attempts, [arg |-> "default", exc |-> o])
         /\ IF o = NoExc
            THEN Loaded("default", decision.requested, decision.device, decision.warning)
            ELSE IF decision.device = "cuda" /\ _is_cuda_compat_error(o)
            THEN pc' = "retry_cpu" /\ UNCHANGED <<exitCode, uncaught, globalVars>>
            ELSE Fatal(o) /\ UNCHANGED globalVars
    /\ UNCHANGED <<environ, torch, avail1, decision, out, loopVars>>

\* Variant: after the retry without device the worker reports cpu.
RetryNoDevice_reportscpu ==
    /\ pc = "retry_nodev"
    /\ \E o \in CtorOutcomes :
         /\ attempts' = Append(attempts, [arg |-> "default", exc |-> o])
         /\ IF o = NoExc
            THEN Loaded("default", decision.requested, "cpu", decision.warning)
            ELSE Fatal(o) /\ UNCHANGED globalVars
    /\ UNCHANGED <<environ, torch, avail1, decision, out, loopVars>>

\* Line 58: model = SimpleLama(), inside "except TypeError".
RetryNoDevice ==
    /\ pc = "retry_nodev"
    /\ \E o \in CtorOutcomes :
         /\ attempts' = Append(attempts, [arg |-> "default", exc |-> o])
         /\ IF o = NoExc
            THEN Loaded("default", decision.requested, decision.device, decision.warning)
            ELSE Fatal(o) /\ UNCHANGED globalVars
    /\ UNCHANGED <<environ, torch, avail1, decision, out, loopVars>>

\* Variant: the cpu retry sets the warning but keeps reporting the device
\* the selector resolved.
RetryCpu_keepsdevice ==
    /\ pc = "retry_cpu"
    /\ \E o \in CtorOutcomes :
         /\ attempts' = Append(attempts, [arg |-> "cpu", exc |-> o])
         /\ IF o = NoExc
            THEN /\ decision' = [decision EXCEPT !.warning = CompatWarning]
                 /\ Loaded("cpu", decision.requested, decision.device, CompatWarning)
            ELSE Fatal(o) /\ UNCHANGED <<decision, globalVars>>
    /\ UNCHANGED <<environ, torch, avail1, out, loopVars>>

\* Lines 61-67: model = SimpleLama(device="cpu"), inside "except Exception".
RetryCpu ==
    /\ pc = "retry_cpu"
    /\ \E o \in CtorOutcomes :
         /\ attempts' = Append(attempts, [arg |-> "cpu", exc |-> o])
         /\ IF o = NoExc
            THEN /\ decision' = [decision EXCEPT !.warning = CompatWarning]
                 /\ Loaded("cpu", decision.requested, "cpu", CompatWarning)
            ELSE Fatal(o) /\ UNCHANGED <<decision, globalVars>>
    /\ UNCHANGED <<environ, torch, avail1, out, loopVars>>

ReadyMessage(avail) ==
    [type |-> <<"ready">>,
     requested_device |-> REQUESTED_DEVICE,
     device |-> DEVICE,
     cuda_available |-> (avail = "True"),
     warning |-> DEVICE_WARNING]

\* Variant: the script enters the loop without writing the ready message.
WriteReady_skipped ==
    /\ pc = "ready"
    /\ pc' = "Ready"
    /\ UNCHANGED <<environ, torch, exitCode, uncaught, startupVars, globalVars, out, loopVars>>

\* Lines 91-99: the ready message, with a second call of _cuda_available().
WriteReady ==
    /\ pc = "ready"
    /\ \E probe \in ProbeOutcomes :
         LET avail == _cuda_available(torch, probe)
         IN  IF avail = "raise"
             THEN Fatal(ProbeError) /\ UNCHANGED out
             ELSE /\ _write(ReadyMessage(avail))
                  /\ pc' = "Ready"
                  /\ UNCHANGED <<exitCode, uncaught>>
    /\ UNCHANGED <<environ, torch, startupVars, globalVars, loopVars>>

\* ------------------------------------------------------- request lines
\* A line of stdin is a tuple of fragments: whitespace characters, the
\* punctuation of the JSON text and one fragment per member of an object.
JStr(v) == [t |-> "str", v |-> v]
JNum(v) == [t |-> "num", v |-> v]

GoodPng == "iVBORw0KGgoAAAANSUhEUg=="
BadPadding == "iVBORw0KGgoAAAANSUhEUg"
NotAnImage == "aGVsbG8="

IdMembers == {"\"id\":\"a\"", "\"id\":\"b\"", "\"id\":7"}
ImageMembers ==
    {"\"image_b64\":7", "\"image_b64\":\"iVBORw0KGgoAAAANSUhEUg==\"",
     "\"image_b64\":\"iVBORw0KGgoAAAANSUhEUg\""}
MaskMembers ==
    {"\"mask_b64\":\"iVBORw0KGgoAAAANSUhEUg==\"", "\"mask_b64\":\"aGVsbG8=\""}
Members == IdMembers \cup ImageMembers \cup MaskMembers

member_key(m) ==
    IF m \in IdMembers THEN "id"
    ELSE IF m \in ImageMembers THEN "image_b64"
    ELSE "mask_b64"

member_value(m) ==
    CASE m = "\"id\":\"a\"" -> JStr("a")
      [] m = "\"id\":\"b\"" -> JStr("b")
      [] m = "\"id\":7" -> JNum("7")
      [] m = "\"image_b64\":7" -> JNum("7")
      [] m = "\"image_b64\":\"iVBORw0KGgoAAAANSUhEUg==\"" -> JStr(GoodPng)
      [] m = "\"image_b64\":\"iVBORw0KGgoAAAANSUhEUg\"" -> JStr(BadPadding)
      [] m = "\"mask_b64\":\"iVBORw0KGgoAAAANSUhEUg==\"" -> JStr(GoodPng)
      [] m = "\"mask_b64\":\"aGVsbG8=\"" -> JStr(NotAnImage)

Opt(S) == {<<>>} \cup {<<m>> : m \in S}

ObjectTexts ==
    {<<"{">> \o i \o im \o ma \o <<"}">> :
        i \in Opt(IdMembers), im \in {<<m>> : m \in ImageMembers}, ma \in Opt(MaskMembers)}

\* What the parent can send as one line.
InputLines ==
    {t \o <<"\n">> : t \in ObjectTexts}
    \cup { <<"\n">>,
           <<" ", "\t", "\n">>,
           <<" ", "{", "\"id\":\"b\"", "\"image_b64\":\"iVBORw0KGgoAAAANSUhEUg==\"",
             "\"mask_b64\":\"iVBORw0KGgoAAAANSUhEUg==\"", "}", " ", "\n">>,
           <<"{", "\"id\":\"a\"", "\n">>,
           <<"not json", "\n">>,
           <<"[", "]", "\n">>,
           <<" ", "7", "\n">> }

\* json.loads(text): a dict (keys to values, a later member replacing an
\* earlier one with the same key), a list, an int, or JSONDecodeError.
Keys == {"id", "image_b64", "mask_b64"}
Absent == [t |-> "absent", v |-> "absent"]

RECURSIVE dict_of(_)
dict_of(ms) ==
    IF ms = <<>> THEN [k \in Keys |-> Absent]
    ELSE LET m == ms[Len(ms)]
             rest == dict_of(SubSeq(ms, 1, Len(ms) - 1))
         IN  [rest EXCEPT ![member_key(m)] = member_value(m)]

Parsed(type, d, e) == [type |-> type, dict |-> d, exc |-> e]

json_loads(s) ==
    LET text == strip(s)
    IN
    IF text = <<"7">> THEN Parsed("int", dict_of(<<>>), NoExc)
    ELSE IF text = <<"[", "]">> THEN Parsed("list", dict_of(<<>>), NoExc)
    ELSE IF /\ Len(text) >= 2
            /\ text[1] = "{"
            /\ text[Len(text)] = "}"
            /\ \A i \in 2..(Len(text) - 1) : text[i] \in Members
         THEN Parsed("dict", dict_of(SubSeq(text, 2, Len(text) - 1)), NoExc)
    ELSE Parsed("", dict_of(<<>>), Exc("JSONDecodeError", <<"Expecting value: line 1 column 1 (char 0)">>))

\* req.get(key): AttributeError unless req is a dict; None for a missing key.
req_get(req, key) ==
    IF req.type # "dict"
    THEN [exc |-> Exc("AttributeError", <<"'", req.type, "' object has no attribute 'get'">>),
          val |-> PyNone]
    ELSE [exc |-> NoExc,
          val |-> IF req.dict[key] = Absent THEN PyNone ELSE req.dict[key]]

\* Variant: numbers pass the type test as well.
is_str_loose(x) == x.t \in {"str", "num"}

\* isinstance(x, str)
is_str(x) == x.t = "str"

\* Variant: base64 text with missing padding is decoded all the same.
_decode_image_lenient(b64, mode) ==
    IF b64 \in {GoodPng, BadPadding} THEN [exc |-> NoExc, img |-> mode]
    ELSE [exc |-> Exc("UnidentifiedImageError", <<"cannot identify image file">>),
          img |-> "unset"]

\* _decode_image(b64, mode): the pixel grid in the given mode, or the error
\* of base64.b64decode / Image.open.
_decode_image(b64, mode) ==
    IF b64 = GoodPng THEN [exc |-> NoExc, img |-> mode]
    ELSE IF b64 = BadPadding
         THEN [exc |-> Exc("Error", <<"Incorrect padding">>), img |-> "unset"]
    ELSE [exc |-> Exc("UnidentifiedImageError", <<"cannot identify image file">>),
          img |-> "unset"]

\* What a call MODEL(image, mask) can do: return an image, return an object
\* that is no image, or raise.
InferOutcomes == {"Image", "NotImage", "raise"}
InferError == Exc("RuntimeError", MsgOom)

\* _encode_png(img)
_encode_png(img) ==
    IF img = "Image" THEN [exc |-> NoExc, b64 |-> <<"iVBORw0KGgo...">>]
    ELSE [exc |-> Exc("AttributeError", <<"'NoneType' object has no attribute 'save'">>),
          b64 |-> <<>>]

\* Variant: the trace is left out.
failure_payload_notrace(e, rid) ==
    [ok |-> FALSE,
     error |-> <<e.name, ": ">> \o e.msg]

\* Variant: the handler adds the id it finds in req_id.
failure_payload_withid(e, rid) ==
    [id |-> rid,
     ok |-> FALSE,
     error |-> <<e.name, ": ">> \o e.msg,
     trace |-> <<"Traceback (most recent call last):\n">> \o <<e.name, ": ">> \o e.msg]

\* Lines 120-127: the payload the except clause writes for exception e.
\* rid is the value of the local req_id when the handler runs.
failure_payload(e, rid) ==
    [ok |-> FALSE,
     error |-> <<e.name, ": ">> \o e.msg,
     trace |-> <<"Traceback (most recent call last):\n">> \o <<e.name, ": ">> \o e.msg]

\* Line 112
invalid_payload(rid) == [id |-> rid, ok |-> FALSE, error |-> <<"Invalid request payload">>]

\* Line 119
success_payload(rid, out_b64) == [id |-> rid, ok |-> TRUE, output_b64 |-> out_b64]

\* ---------------------------------------------------------- worker loop
Step(rid, img, msk, ndecode, ninfer, wrote, payload, next) ==
    [req_id |-> rid, image |-> img, mask |-> msk, decode |-> ndecode,
     infer |-> ninfer, wrote |-> wrote, payload |-> payload, pc |-> next]

\* Variant: a request whose id repeats the previous one is dropped silently.
process_line_dedup(ln, rid0) ==
    LET req == json_loads(ln)
        gid == req_get(req, "id")
        gimage == req_get(req, "image_b64")
        gmask == req_get(req, "mask_b64")
        dimage == _decode_image(gimage.val.v, "RGB")
        dmask == _decode_image(gmask.val.v, "L")
    IN  IF req.exc # NoExc
        THEN Step(rid0, "unset", "unset", 0, 0, TRUE, failure_payload(req.exc, rid0), "Ready")
        ELSE IF gid.exc # NoExc
        THEN Step(rid0, "unset", "unset", 0, 0, TRUE, failure_payload(gid.exc, rid0), "Ready")
        ELSE IF is_str(gid.val) /\ gid.val = rid0
        THEN Step(rid0, "unset", "unset", 0, 0, FALSE, invalid_payload(gid.val), "Ready")
        ELSE IF ~is_str(gid.val) \/ ~is_str(gimage.val) \/ ~is_str(gmask.val)
        THEN Step(gid.val, "unset", "unset", 0, 0, TRUE, invalid_payload(gid.val), "Ready")
        ELSE IF dimage.exc # NoExc
        THEN Step(gid.val, "unset", "unset", 1, 0, TRUE, failure_payload(dimage.exc, gid.val), "Ready")
        ELSE IF dmask.exc # NoExc
        THEN Step(gid.val, dimage.img, "unset", 2, 0, TRUE, failure_payload(dmask.exc, gid.val), "Ready")
        ELSE Step(gid.val, dimage.img, dmask.img, 2, 1, FALSE, invalid_payload(gid.val), "infer")

\* Lines 105-127 for the stripped, non-empty line ln, up to the call of
\* MODEL: the new values of the locals, the payload written if the iteration
\* ends here, and where the process is afterwards. rid0 is the value req_id
\* has from earlier iterations.
process_line(ln, rid0) ==
    LET req == json_loads(ln)
        gid == req_get(req, "id")
        gimage == req_get(req, "image_b64")
        gmask == req_get(req, "mask_b64")
        dimage == _decode_image(gimage.val.v, "RGB")
        dmask == _decode_image(gmask.val.v, "L")
    IN  IF req.exc # NoExc
        THEN Step(rid0, "unset", "unset", 0, 0, TRUE, failure_payload(req.exc, rid0), "Ready")
        ELSE IF gid.exc # NoExc
        THEN Step(rid0, "unset", "unset", 0, 0, TRUE, failure_payload(gid.exc, rid0), "Ready")
        ELSE IF ~is_str(gid.val) \/ ~is_str(gimage.val) \/ ~is_str(gmask.val)
        THEN Step(gid.val, "unset", "unset", 0, 0, TRUE, invalid_payload(gid.val), "Ready")
        ELSE IF dimage.exc # NoExc
        THEN Step(gid.val, "unset", "unset", 1, 0, TRUE, failure_payload(dimage.exc, gid.val), "Ready")
        ELSE IF dmask.exc # NoExc
        THEN Step(gid.val, dimage.img, "unset", 2, 0, TRUE, failure_payload(dmask.exc, gid.val), "Ready")
        ELSE Step(gid.val, dimage.img, dmask.img, 2, 1, FALSE, invalid_payload(gid.val), "infer")

\* Lines 101-104: the next line of stdin, one of Lines, is read and
\* stripped; an empty one is skipped. The locals that every iteration
\* assigns before it reads them are unbound again when the try block is
\* entered.
ReadLineFrom(Lines) ==
    /\ pc = "Ready"
    /\ nread < MaxLines
    /\ \E l \in Lines :
         /\ raw' = l
         /\ line' = strip(l)
         /\ nread' = nread + 1
         /\ IF line' = <<>>
            THEN UNCHANGED <<pc, nonblank, image, mask, result, calls>>
            ELSE /\ pc' = "parse"
                 /\ nonblank' = nonblank + 1
                 /\ image' = "unset"
                 /\ mask' = "unset"
                 /\ result' = "unset"
                 /\ calls' = NoCalls
    /\ UNCHANGED <<environ, torch, exitCode, uncaught, startupVars, globalVars, out, req_id>>

ReadLine == ReadLineFrom(InputLines)

\* Lines 105-117: parse, validate, decode; the iteration ends with a
\* response, or MODEL is called.
ParseRequest ==
    /\ pc = "parse"
    /\ \E s \in {process_line(line, req_id)} :
           /\ req_id' = s.req_id
           /\ image' = s.image
           /\ mask' = s.mask
           /\ calls' = [calls EXCEPT !.decode = s.decode, !.infer = s.infer]
           /\ pc' = s.pc
           /\ IF s.wrote THEN _write(s.payload) ELSE UNCHANGED out
    /\ UNCHANGED <<environ, torch, exitCode, uncaught, startupVars, globalVars,
                   nread, nonblank, raw, line, result>>

\* Variant: when MODEL raises, the handler builds a new model on cpu before
\* it reports the failure.
InferReturns_reload ==
    /\ pc = "infer"
    /\ \E o \in InferOutcomes :
         IF o = "raise"
         THEN /\ _write(failure_payload(InferError, req_id))
              /\ attempts' = Append(attempts, [arg |-> "cpu", exc |-> NoExc])
              /\ MODEL' = "cpu"
              /\ DEVICE' = "cpu"
              /\ UNCHANGED <<result, calls>>
         ELSE LET enc == _encode_png(o)
              IN  /\ result' = o
                  /\ calls' = [calls EXCEPT !.encode = 1]
                  /\ UNCHANGED <<attempts, MODEL, DEVICE>>
                  /\ IF enc.exc # NoExc
                     THEN _write(failure_payload(enc.exc, req_id))
                     ELSE _write(success_payload(req_id, enc.b64))
    /\ pc' = "Ready"
    /\ UNCHANGED <<environ, torch, exitCode, uncaught, avail1, decision,
                   REQUESTED_DEVICE, DEVICE_WARNING,
                   nread, nonblank, raw, line, req_id, image, mask>>

\* Variant: the call of MODEL is outside the try block, its error ends the
\* process.
InferReturns_uncaught ==
    /\ pc = "infer"
    /\ \E o \in InferOutcomes :
         IF o = "raise"
         THEN /\ Fatal(InferError)
              /\ UNCHANGED <<result, calls, out>>
         ELSE LET enc == _encode_png(o)
              IN  /\ result' = o
                  /\ calls' = [calls EXCEPT !.encode = 1]
                  /\ pc' = "Ready"
                  /\ UNCHANGED <<exitCode, uncaught>>
                  /\ IF enc.exc # NoExc
                     THEN _write(failure_payload(enc.exc, req_id))
                     ELSE _write(success_payload(req_id, enc.b64))
    /\ UNCHANGED <<environ, torch, startupVars, globalVars,
                   nread, nonblank, raw, line, req_id, image, mask>>

\* Lines 117-127: MODEL(image, mask) returns or raises; the result is
\* encoded and the response written.
InferReturns ==
    /\ pc = "infer"
    /\ \E o \in InferOutcomes :
         IF o = "raise"
         THEN /\ _write(failure_payload(InferError, req_id))
              /\ UNCHANGED <<result, calls>>
         ELSE LET enc == _encode_png(o)
              IN  /\ result' = o
                  /\ calls' = [calls EXCEPT !.encode = 1]
                  /\ IF enc.exc # NoExc
                     THEN _write(failure_payload(enc.exc, req_id))
                     ELSE _write(success_payload(req_id, enc.b64))
    /\ pc' = "Ready"
    /\ UNCHANGED <<environ, torch, exitCode, uncaught, startupVars, globalVars,
                   nread, nonblank, raw, line, req_id, image, mask>>

\* Line 101: stdin is closed, the loop and the script end.
EndOfInput ==
    /\ pc = "Ready"
    /\ pc' = "Terminated"
    /\ exitCode' = 0
    /\ UNCHANGED <<environ, torch, uncaught, startupVars, globalVars, out, loopVars>>

Next ==
    \/ PickDevice
    \/ Construct
    \/ RetryNoDevice
    \/ RetryCpu
    \/ WriteReady
    \/ ReadLine
    \/ ParseRequest
    \/ InferReturns
    \/ EndOfInput

Spec == Init /\ [][Next]_vars

\* One line of each kind: blank, not JSON, not an object, an invalid
\* payload, a request that succeeds, one whose image cannot be decoded.
LiveLines ==
    { <<" ", "\t", "\n">>,
      <<"{", "\"id\":\"a\"", "\n">>,
      <<"[", "]", "\n">>,
      <<"{", "\"id\":7", "\"image_b64\":\"iVBORw0KGgoAAAANSUhEUg==\"", "}", "\n">>,
      <<"{", "\"id\":\"a\"", "\"image_b64\":\"iVBORw0KGgoAAAANSUhEUg==\"",
        "\"mask_b64\":\"iVBORw0KGgoAAAANSUhEUg==\"", "}", "\n">>,
      <<"{", "\"id\":\"a\"", "\"image_b64\":\"iVBORw0KGgoAAAANSUhEUg\"",
        "\"mask_b64\":\"iVBORw0KGgoAAAANSUhEUg==\"", "}", "\n">> }

ReadLiveLine == ReadLineFrom(LiveLines)

LiveNext ==
    \/ PickDevice
    \/ Construct
    \/ RetryNoDevice
    \/ RetryCpu
    \/ WriteReady
    \/ ReadLiveLine
    \/ ParseRequest
    \/ InferReturns
    \/ EndOfInput

\* The worker under a parent that closes stdin after finitely many lines,
\* every started step of the loop body, the call of MODEL included,
\* returning or raising. The lines are drawn from LiveLines.
LiveSpec ==
    /\ Init
    /\ [][LiveNext]_vars
    /\ WF_vars(EndOfInput \/ ParseRequest \/ InferReturns)

\* ============================================================== claims
\* Helpers of the claims; these state the specification's side and do not
\* use the operators that model the parsing.
IsReadyMessage(m) == "type" \in DOMAIN m
LastOut == out[Len(out)]
StartupSucceeded == pc \in {"Ready", "parse", "infer"} \/ (pc = "Terminated" /\ exitCode = 0)

\* A response to the last line read has been written and the loop is back
\* at the top.
Answered == pc = "Ready" /\ nonblank >= 1 /\ line # <<>>

IsBlank(l) == \A i \in DOMAIN l : l[i] \in {" ", "\t", "\n"}
NoSpace(l) == SelectSeq(l, LAMBDA c : c \notin {" ", "\t", "\n"})
IsObjectText(l) ==
    LET t == NoSpace(l)
    IN  Len(t) >= 2 /\ t[1] = "{" /\ t[Len(t)] = "}"
IsStructuredText(l) == IsObjectText(l) \/ NoSpace(l) \in {<<"[", "]">>, <<"7">>}

StringIdMembers == {"\"id\":\"a\"", "\"id\":\"b\""}
StringImageMembers ==
    {"\"image_b64\":\"iVBORw0KGgoAAAANSUhEUg==\"", "\"image_b64\":\"iVBORw0KGgoAAAANSUhEUg\""}
StringMaskMembers == {"\"mask_b64\":\"iVBORw0KGgoAAAANSUhEUg==\"", "\"mask_b64\":\"aGVsbG8=\""}
Has(l, S) == \E i \in DOMAIN l : l[i] \in S

\* The line is a request object whose id, image and mask are all strings.
WellTyped(l) ==
    /\ IsObjectText(l)
    /\ Has(l, StringIdMembers)
    /\ Has(l, StringImageMembers)
    /\ Has(l, StringMaskMembers)

\* The id value the request on line l supplies (null when it supplies none).
SuppliedId(l) ==
    IF Has(l, {"\"id\":\"a\""}) THEN [t |-> "str", v |-> "a"]
    ELSE IF Has(l, {"\"id\":\"b\""}) THEN [t |-> "str", v |-> "b"]
    ELSE IF Has(l, {"\"id\":7"}) THEN [t |-> "num", v |-> "7"]
    ELSE [t |-> "null", v |-> "null"]

\* {ok:false, error:"<kind>: <message>", trace}, possibly with an id.
IsFailure(m) ==
    /\ {"ok", "error", "trace"} \subseteq DOMAIN m
    /\ DOMAIN m \subseteq {"id", "ok", "error", "trace"}
    /\ m.ok = FALSE
    /\ Len(m.error) >= 3
    /\ m.error[1] # ""
    /\ m.error[2] = ": "
    /\ m.trace # <<>>

IsSuccess(m) == DOMAIN m = {"id", "ok", "output_b64"} /\ m.ok = TRUE /\ m.output_b64 # <<>>

\* Decode, inference and encode all returned for the current line.
AllStepsReturned == image = "RGB" /\ mask = "L" /\ result = "Image"

\* C1: the ready message is written exactly once when startup succeeds, it
\* is the first line of the output, and it is there before any input line
\* is read or answered, also when no request is ever sent.
C1_ReadyOnceAndFirst ==
    LET readies == {i \in DOMAIN out : IsReadyMessage(out[i])}
    IN  /\ Cardinality(readies) <= 1
        /\ StartupSucceeded => readies = {1}
        /\ out # <<>> => IsReadyMessage(out[1])
        /\ nread > 0 => readies = {1}
        /\ pc \in StartingPcs => (nread = 0 /\ out = <<>>)

C1_Witness ==
    /\ pc = "Terminated"
    /\ exitCode = 0
    /\ nread = 0
    /\ Len(out) = 1
    /\ IsReadyMessage(out[1])

\* C2: when the decode of the image or of the mask, the model or the PNG
\* encoding raises for a line with a string id, image and mask, exactly one
\* failure response {ok:false, error:"<kind>: <message>", trace} is
\* written for that line, the worker is back in Ready and not terminated,
\* and a well-typed line whose steps all return is answered ok:true
\* whatever came before it.
C2_StepFailureIsReported ==
    /\ [](Answered /\ WellTyped(line) =>
            /\ exitCode = -1
            /\ Len(out) = 1 + nonblank
            /\ IF AllStepsReturned THEN IsSuccess(LastOut) ELSE IsFailure(LastOut))
    /\ [][(pc \in ProcessingPcs /\ WellTyped(line)) => (pc' \in {"Ready", "infer"})]_vars

C2_Witness ==
    /\ Answered
    /\ Len(out) = 3
    /\ WellTyped(line)
    /\ IsFailure(out[2])
    /\ out[2].error[1] = "RuntimeError"
    /\ IsSuccess(out[3])

\* C3: a non-blank line that is not valid JSON text gets exactly one
\* response, {ok:false, error, trace} without an id field; the worker does
\* not terminate and a following valid request is answered.
C3_MalformedLineIsReported ==
    /\ (pc = "parse" /\ ~IsStructuredText(line)) => Len(out) = nonblank
    /\ (Answered /\ ~IsStructuredText(line)) =>
            /\ exitCode = -1
            /\ Len(out) = 1 + nonblank
            /\ DOMAIN LastOut = {"ok", "error", "trace"}
            /\ IsFailure(LastOut)

C3_Witness ==
    /\ Answered
    /\ Len(out) = 3
    /\ DOMAIN out[2] = {"ok", "error", "trace"}
    /\ out[2].error[1] = "JSONDecodeError"
    /\ IsSuccess(out[3])

\* C4: after the ready line the output holds exactly one response per
\* non-blank line read, in reading order: the response to the k-th
\* non-blank line is line k+1 of the output, it is written before the next
\* line is read, the output only ever grows at its end, and two lines with
\* the same id are each answered.
C4_OneResponsePerLineInOrder ==
    /\ [](StartupSucceeded =>
            Len(out) = 1 + nonblank - (IF pc \in ProcessingPcs THEN 1 ELSE 0))
    /\ [][\/ out' = out
          \/ /\ Len(out') = Len(out) + 1
             /\ SubSeq(out', 1, Len(out)) = out
             /\ (pc \in ProcessingPcs => Len(out') = 1 + nonblank)]_vars
    /\ [][(nread' # nread) => (pc = "Ready" /\ Len(out) = 1 + nonblank)]_vars

C4_Witness ==
    /\ Answered
    /\ Len(out) = 3
    /\ IsSuccess(out[2])
    /\ IsSuccess(out[3])
    /\ out[2].id = out[3].id

\* C5: a response that has an id field has the id of the line being
\* processed, never that of an earlier line; a line with string id, image
\* and mask whose decode, inference and encode return is answered with
\* exactly {id, ok:true, output} carrying its own id.
C5_ResponseIdIsCurrentId ==
    Answered =>
        /\ "id" \in DOMAIN LastOut => LastOut.id = SuppliedId(line)
        /\ (WellTyped(line) /\ AllStepsReturned) =>
                (IsSuccess(LastOut) /\ LastOut.id = SuppliedId(line))

C5_Witness ==
    /\ Answered
    /\ Len(out) = 3
    /\ IsSuccess(out[2])
    /\ IsSuccess(out[3])
    /\ out[2].id # out[3].id
    /\ out[3].id = SuppliedId(line)

\* C6: when the line parses, its id is a string and a later step (image or
\* mask decode, inference, encode) fails, the failure response has an id
\* field equal to the request's id.
C6_FailureCarriesKnownId ==
    (Answered /\ WellTyped(line) /\ ~AllStepsReturned) =>
        ("id" \in DOMAIN LastOut /\ LastOut.id = SuppliedId(line))

\* C7: a line that parses to an object in which id, image or mask is missing
\* or no string is answered with exactly {id, ok:false, error:"Invalid
\* request payload"}, the id being the value the request supplied whatever
\* its type (null when it supplied none); neither the codec nor the model is
\* called for that line.
C7_InvalidPayload ==
    /\ (Answered /\ IsObjectText(line) /\ ~WellTyped(line)) =>
            /\ LastOut = [id |-> SuppliedId(line), ok |-> FALSE,
                          error |-> <<"Invalid request payload">>]
            /\ Len(out) = 1 + nonblank
            /\ calls = [decode |-> 0, infer |-> 0, encode |-> 0]
    /\ (pc = "infer" /\ IsObjectText(line)) => WellTyped(line)

C7_Witness ==
    /\ Answered
    /\ IsObjectText(line)
    /\ Has(line, {"\"id\":7"})
    /\ ~Has(line, StringMaskMembers)
    /\ LastOut.id = [t |-> "num", v |-> "7"]
    /\ LastOut.error = <<"Invalid request payload">>

\* C8: reading a line that is empty after trimming whitespace writes
\* nothing, calls neither codec nor model, leaves the worker in Ready and
\* changes nothing a later response depends on.
C8_BlankLineIsSkipped ==
    [][(nread' = nread + 1 /\ IsBlank(raw')) =>
          /\ pc' = "Ready"
          /\ pc = "Ready"
          /\ UNCHANGED <<out, calls, req_id, image, mask, result, nonblank,
                         exitCode, uncaught, globalVars, startupVars>>]_vars

C8_Witness ==
    /\ pc = "Ready"
    /\ nread = 2
    /\ nonblank = 1
    /\ IsBlank(raw)
    /\ raw # <<"\n">>
    /\ Len(out) = 2
    /\ IsSuccess(out[2])

\* The failures the specification names as device-compatibility failures.
RecognizedCompat(e) == e.msg \in {MsgKernel, MsgIncompat, MsgCapability}

\* The failure of attempt i is one the loader accommodates by retrying.
Accommodated(i) ==
    /\ i = 1
    /\ \/ attempts[i].exc.name = "TypeError"
       \/ (RecognizedCompat(attempts[i].exc) /\ decision.device = "cuda")

upperChar(c) ==
    CASE c = "a" -> "A" [] c = "c" -> "C" [] c = "d" -> "D" [] c = "o" -> "O"
      [] c = "p" -> "P" [] c = "t" -> "T" [] c = "u" -> "U" [] OTHER -> c

\* The variable is set to `word` in some case, with whitespace around it.
Spells(env, word) ==
    /\ env.set
    /\ LET core == NoSpace(env.val)
       IN  /\ Len(core) = Len(word)
           /\ \A i \in DOMAIN core : core[i] \in {word[i], upperChar(word[i])}

\* C10: the decision _pick_device returns. cpu requested: cpu, no warning;
\* cuda requested: cuda without warning if available, else cpu with a
\* warning; anything else, unset included, is auto: cuda if available, else
\* cpu, no warning. So the device is cpu whenever cuda is unavailable and
\* there is a warning exactly when cuda was requested and unavailable.
C10_DeviceSelection ==
    pc = "construct" =>
        LET want == IF Spells(environ, CPU) THEN CPU
                    ELSE IF Spells(environ, CUDA) THEN CUDA ELSE AUTO
            available == avail1 = "True"
        IN  /\ decision.requested = want
            /\ decision.device = (IF want # CPU /\ available THEN "cuda" ELSE "cpu")
            /\ avail1 = "False" => decision.device = "cpu"
            /\ (decision.warning # None) <=> (want = CUDA /\ avail1 = "False")
            /\ want = CPU => avail1 = "uncalled"

C10_Witness ==
    /\ pc = "construct"
    /\ environ = [set |-> TRUE, val |-> <<" ", "C", "U", "D", "A", "\n">>]
    /\ avail1 = "False"
    /\ decision = [requested |-> CUDA, device |-> "cpu", warning |-> UnavailableWarning]

\* C11: _cuda_available() never raises: whatever probing the accelerator
\* runtime does, the probe raising included, the answer is "not available",
\* so neither _pick_device nor the ready message ends startup with a probe
\* error.
C11_ProbeNeverRaises ==
    /\ avail1 # "raise"
    /\ uncaught # ProbeError

\* C12: once Ready was reached the worker terminates only from Ready, by
\* end of input, with exit status 0 and without writing anything more; no
\* line terminates it; and when stdin closes after finitely many lines and
\* every step returns or raises, it does terminate with status 0.
C12_TerminatesOnlyAtEndOfInput ==
    /\ [][(pc \notin StartingPcs /\ pc # "Terminated" /\ pc' = "Terminated") =>
            (pc = "Ready" /\ exitCode' = 0 /\ out' = out /\ uncaught' = NoExc)]_vars
    /\ [](pc \in {"Ready", "parse", "infer"} => exitCode = -1)
    /\ (pc \in {"Ready", "parse", "infer"}) ~> (pc = "Terminated" /\ exitCode = 0)

C12_Witness ==
    /\ pc = "Terminated"
    /\ exitCode = 0
    /\ nread >= 2
    /\ Len(out) = 3
    /\ IsFailure(out[2])
    /\ ~out[3].ok
    /\ out[3].error = <<"Invalid request payload">>

\* The first constructor call, bound to cuda, failed with a recognized
\* compatibility error that is no TypeError.
FirstAttemptIncompatible ==
    /\ Len(attempts) >= 1
    /\ attempts[1].arg = "cuda"
    /\ attempts[1].exc.name # "TypeError"
    /\ RecognizedCompat(attempts[1].exc)

\* ... and the one further call, forced onto cpu, returned a model.
FellBackToCpu ==
    /\ FirstAttemptIncompatible
    /\ Len(attempts) = 2
    /\ attempts[2] = [arg |-> "cpu", exc |-> NoExc]

\* C13: after a recognized compatibility failure of the first attempt on
\* cuda there is exactly one more attempt, forced onto cpu; if it succeeds
\* the worker reaches Ready and its ready message reports device cpu, the
\* requested device as requested and a non-null warning.
C13_CompatFallbackReachesReady ==
    /\ [](FirstAttemptIncompatible =>
            /\ Len(attempts) <= 2
            /\ pc # "retry_cpu" => (Len(attempts) = 2 /\ attempts[2].arg = "cpu"))
    /\ [][(pc = "ready" /\ FellBackToCpu) =>
            /\ pc' = "Ready"
            /\ Len(out') = 1
            /\ out'[1].device = "cpu"
            /\ out'[1].requested_device = decision.requested
            /\ out'[1].warning # None]_vars

\* C14 as claimed: every recognized compatibility failure of a constructor
\* call while the resolved device is cuda, the call without device argument
\* included, is followed by a cpu retry and never ends the process.
C14_FallbackOnEveryCompatFailure ==
    \A i \in DOMAIN attempts :
        (attempts[i].arg # "cpu" /\ RecognizedCompat(attempts[i].exc) /\ decision.device = "cuda")
            => ~(pc = "Terminated" /\ Len(attempts) = i)

\* C14 as amended: the cpu retry is made only for a recognized compatibility
\* failure of the first call (with the device argument, resolved cuda); a
\* failure of the retried call without device argument, a compatibility
\* failure included, is fatal: no cpu retry, non-zero exit, no ready message.
C14_FallbackOnlyAfterFirstAttempt ==
    /\ \A i \in DOMAIN attempts :
            i > 1 => (attempts[i].arg = "cpu" <=> (i = 2 /\ FirstAttemptIncompatible))
    /\ (Len(attempts) >= 2 /\ attempts[2].arg = "default" /\ attempts[2].exc # NoExc) =>
            /\ Len(attempts) = 2
            /\ pc = "Terminated"
            /\ exitCode = 1
            /\ uncaught = attempts[2].exc
            /\ out = <<>>

C14_Witness ==
    /\ pc = "Terminated"
    /\ exitCode = 1
    /\ decision.device = "cuda"
    /\ Len(attempts) = 2
    /\ attempts[1].exc.name = "TypeError"
    /\ attempts[2] = [arg |-> "default", exc |-> Exc("RuntimeError", MsgKernel)]

\* The decision of the Device Selector as section 4.1 states it.
Wanted ==
    IF Spells(environ, CPU) THEN CPU
    ELSE IF Spells(environ, CUDA) THEN CUDA ELSE AUTO
SelectorDevice == IF Wanted # CPU /\ avail1 = "True" THEN "cuda" ELSE "cpu"
SelectorWarning ==
    IF Wanted = CUDA /\ avail1 = "False" THEN UnavailableWarning ELSE None

\* C15: when the first attempt fails with TypeError there is exactly one
\* retry, without device argument, and when it succeeds the device and the
\* warning reported are those the Device Selector decided.
C15_NoDeviceRetryKeepsDecision ==
    (Len(attempts) >= 1 /\ attempts[1].exc.name = "TypeError") =>
        /\ Len(attempts) <= 2
        /\ pc # "retry_nodev" => (Len(attempts) = 2 /\ attempts[2].arg = "default")
        /\ (Len(attempts) = 2 /\ attempts[2].exc = NoExc) =>
              /\ REQUESTED_DEVICE = Wanted
              /\ DEVICE = SelectorDevice
              /\ DEVICE_WARNING = SelectorWarning
              /\ out # <<>> =>
                    /\ out[1].requested_device = Wanted
                    /\ out[1].device = SelectorDevice
                    /\ out[1].warning = SelectorWarning

C15_Witness ==
    /\ pc = "Ready"
    /\ Len(attempts) = 2
    /\ attempts[1] = [arg |-> "cuda", exc |-> Exc("TypeError", MsgKeyword)]
    /\ attempts[2] = [arg |-> "default", exc |-> NoExc]
    /\ out[1].device = "cuda"
    /\ out[1].warning = None

\* C16: a line that is valid JSON but no object, so that id, image and mask
\* are all missing, is answered with ok:false and the error "Invalid request
\* payload".
C16_NonObjectIsInvalidPayload ==
    (Answered /\ NoSpace(line) \in {<<"[", "]">>, <<"7">>}) =>
        (LastOut.ok = FALSE /\ LastOut.error = <<"Invalid request payload">>)

\* The line carries an image and a mask that both decode.
Decodable(l) ==
    /\ Has(l, {"\"image_b64\":\"iVBORw0KGgoAAAANSUhEUg==\""})
    /\ Has(l, {"\"mask_b64\":\"iVBORw0KGgoAAAANSUhEUg==\""})

\* C17: MODEL is invoked at most once per line, only in Processing, only
\* after the ready message, only for a line whose id, image and mask are
\* strings and whose image and mask decoded; an invocation never starts
\* while another one is in flight.
C17_OneInvocationInFlight ==
    /\ [](calls.infer <= 1)
    /\ [](pc = "infer" => (calls.infer = 1 /\ result = "unset"))
    /\ [][calls'.infer > calls.infer =>
            /\ pc = "parse"
            /\ pc' = "infer"
            /\ calls.infer = 0
            /\ calls'.infer = 1
            /\ out # <<>>
            /\ IsReadyMessage(out[1])
            /\ WellTyped(line)
            /\ Decodable(line)
            /\ image' = "RGB"
            /\ mask' = "L"]_vars
    /\ [][calls'.infer < calls.infer => (pc = "Ready" /\ nread' = nread + 1)]_vars

C17_Witness ==
    /\ pc = "infer"
    /\ nread = 2
    /\ Len(out) = 2
    /\ IsSuccess(out[2])
    /\ calls.infer = 1

\* C18: the model handle and the device decision are written only during
\* Starting: at most two constructor calls, all before the ready message,
\* exactly one of them successful in a run that reaches Ready, and no
\* request changes the handle or the reported device, requested device or
\* warning.
C18_WrittenOnlyDuringStarting ==
    /\ [](Len(attempts) <= 2)
    /\ [][attempts' # attempts => (pc \in StartingPcs /\ out = <<>> /\ out' = <<>>)]_vars
    /\ [][pc \notin StartingPcs => UNCHANGED <<globalVars, attempts, decision>>]_vars
    /\ [](StartupSucceeded =>
            /\ Cardinality({i \in DOMAIN attempts : attempts[i].exc = NoExc}) = 1
            /\ attempts[Len(attempts)].exc = NoExc
            /\ MODEL = attempts[Len(attempts)].arg
            /\ out[1].requested_device = REQUESTED_DEVICE
            /\ out[1].device = DEVICE
            /\ out[1].warning = DEVICE_WARNING)

C18_Witness ==
    /\ Answered
    /\ Len(out) = 3
    /\ IsFailure(out[2])
    /\ IsFailure(out[3])
    /\ out[3].error[1] = "RuntimeError"
    /\ Len(attempts) = 2
    /\ MODEL = "cpu"
    /\ DEVICE_WARNING = CompatWarning

\* C19: in every ready message a non-null warning comes with device cpu, and
\* device cuda comes with a null warning.
C19_WarningImpliesCpu ==
    \A i \in DOMAIN out :
        IsReadyMessage(out[i]) =>
            /\ out[i].device \in {"cpu", "cuda"}
            /\ out[i].warning # None => out[i].device = "cpu"
            /\ out[i].device = "cuda" => out[i].warning = None

C19_Witness ==
    /\ out # <<>>
    /\ out[1].warning = CompatWarning
    /\ out[1].requested_device = AUTO
    /\ out[1].device = "cpu"
    /\ out[1].cuda_available = TRUE

\* C20 as claimed: in every ready message device cuda implies
\* cuda_available true.
C20_ReadyAvailabilityMatchesDevice ==
    \A i \in DOMAIN out :
        (IsReadyMessage(out[i]) /\ out[i].device = "cuda") => out[i].cuda_available = TRUE

\* C20 as amended: the reported device is cuda only if the probe made by
\* the Device Selector returned True; cuda_available of the ready message
\* is the result of a second probe and may differ.
C20_AcceleratorOnlyIfSelectorProbed ==
    /\ DEVICE = "cuda" => avail1 = "True"
    /\ \A i \in DOMAIN out :
           (IsReadyMessage(out[i]) /\ out[i].device = "cuda") => avail1 = "True"

C20_Witness ==
    /\ out # <<>>
    /\ out[1].device = "cuda"
    /\ out[1].cuda_available = FALSE
    /\ avail1 = "True"

====
